---- MODULE Spec2Model ----
(***************************************************************************)
(* rustplexity: a bigram perplexity model (src/src/lib.rs).                *)
(*                                                                         *)
(* Text is modelled as a sequence of characters, each character a string   *)
(* ("a", " ", "1", "\n"; two characters that a string cannot hold go by    *)
(* their code points).  An f64 held in a table is modelled by the exact    *)
(* decimal value of its literal, [m, e] for m / 10^e; binary64 rounding    *)
(* is not modelled.                                                        *)
(***************************************************************************)
EXTENDS Integers, Sequences, FiniteSets, TLC

VARIABLES
    files,          \* task -> the bytes of the file the task is given
    tpc,            \* task -> position of the load task
    pos,            \* task -> number of characters of the file consumed
    hashmap,        \* task -> the local `hashmap` of load_hashmap_from_file
    tres,           \* task -> the task's result (the JoinHandle's output)
    finished,       \* the tasks in the order in which they finished
    cpc,            \* position of from_file
    model,          \* the local `model` of from_file
    ret,            \* what from_file returned to its caller
    data,           \* the tables of the model the scoring calls read
    spc,            \* caller -> position of its compute_sentence call
    sentence,       \* caller -> the argument of the call
    words,          \* caller -> the tokens not yet processed
    num_words,      \* caller -> words.len()
    prev_word,      \* caller -> the local prev_word
    log_prob_sum,   \* caller -> the log2 arguments accumulated so far
    lookups,        \* caller -> the keys the call has looked up so far
    result          \* caller -> the value the call returned

loadVars  == <<files, tpc, pos, hashmap, tres, finished>>
ctorVars  == <<cpc, model, ret>>
scoreVars == <<data, spc, sentence, words, num_words, prev_word,
               log_prob_sum, lookups, result>>
vars      == <<loadVars, ctorVars, scoreVars>>

----------------------------------------------------------------------------
(* Bounds of the model.                                                    *)

\* longest file, in characters, of the loader's specification
MaxFileLen == 8
\* most lines of a file of the constructor's specification
MaxLines == 2
\* longest sentence, in characters, of the tokenizer's specification
MaxSentenceLen == 4
\* longest sentence, in characters, of the scoring specification
MaxScoreLen == 3
\* longest sentence, in characters, when two callers score at once
MaxSharedLen == 2


----------------------------------------------------------------------------
(* Text helpers.                                                           *)

Str(n, alphabet) == UNION {[1..k -> alphabet] : k \in 0..n}

RECURSIVE Flatten(_)
Flatten(ss) == IF ss = <<>> THEN <<>> ELSE Head(ss) \o Flatten(Tail(ss))

\* positions of character c in s
Positions(s, c) == {i \in 1..Len(s) : s[i] = c}

Max(S) == CHOOSE m \in S : \A n \in S : n <= m
Min(S) == CHOOSE m \in S : \A n \in S : m <= n

\* u8::is_ascii_whitespace: space, tab, line feed, form feed, carriage return
AsciiWhitespace == {" ", "\t", "\n", "\f", "\r"}

\* str::split_ascii_whitespace: the maximal runs of other characters, in order
RECURSIVE SplitRuns(_, _, _)
SplitRuns(s, cur, acc) ==
    IF s = <<>> THEN (IF cur = <<>> THEN acc ELSE Append(acc, cur))
    ELSE IF Head(s) \in AsciiWhitespace
         THEN SplitRuns(Tail(s), <<>>, IF cur = <<>> THEN acc ELSE Append(acc, cur))
         ELSE SplitRuns(Tail(s), Append(cur, Head(s)), acc)

split_ascii_whitespace(s) == SplitRuns(s, <<>>, <<>>)

----------------------------------------------------------------------------
(* str::parse::<f64>, for the literals the model's alphabets can spell:    *)
(* an optional sign, then digits with an optional decimal point, at least  *)
(* one digit in all.  (Exponents, "inf" and "nan" need letters that no     *)
(* alphabet of the model holds.)                                           *)

Digits == {"0", "1", "2", "3", "4", "5", "6", "7", "8", "9"}

DigitVal(c) ==
    CASE c = "0" -> 0 [] c = "1" -> 1 [] c = "2" -> 2 [] c = "3" -> 3
      [] c = "4" -> 4 [] c = "5" -> 5 [] c = "6" -> 6 [] c = "7" -> 7
      [] c = "8" -> 8 [] c = "9" -> 9

RECURSIVE Pow10(_)
Pow10(n) == IF n = 0 THEN 1 ELSE 10 * Pow10(n - 1)

\* the digits ds read as an integer
RECURSIVE IntVal(_)
IntVal(ds) ==
    IF ds = <<>> THEN 0
    ELSE 10 * IntVal(SubSeq(ds, 1, Len(ds) - 1)) + DigitVal(ds[Len(ds)])

\* the decimal m / 10^e in lowest terms: equal numbers get equal records
RECURSIVE Dec(_, _)
Dec(m, e) ==
    IF m = 0 THEN [m |-> 0, e |-> 0]
    ELSE IF e > 0 /\ m % 10 = 0 THEN Dec(m \div 10, e - 1)
    ELSE [m |-> m, e |-> e]

IsNumberBody(s) ==
    /\ \A i \in 1..Len(s) : s[i] \in Digits \cup {"."}
    /\ Cardinality(Positions(s, ".")) <= 1
    /\ \E i \in 1..Len(s) : s[i] \in Digits

BodyVal(s) ==
    IF Positions(s, ".") = {} THEN Dec(IntVal(s), 0)
    ELSE LET p == CHOOSE i \in 1..Len(s) : s[i] = "."
         IN  Dec(IntVal(SubSeq(s, 1, p - 1) \o SubSeq(s, p + 1, Len(s))),
                 Len(s) - p)

Unsigned(s) == IF s # <<>> /\ Head(s) \in {"+", "-"} THEN Tail(s) ELSE s

\* whether parse::<f64>() returns Ok
IsF64(s) == IsNumberBody(Unsigned(s))

\* the value v of Ok(v)
ParseF64(s) ==
    LET b == BodyVal(Unsigned(s))
    IN  IF s # <<>> /\ Head(s) = "-" THEN [m |-> 0 - b.m, e |-> b.e] ELSE b

----------------------------------------------------------------------------
(* load_hashmap_from_file.                                                 *)

Tasks == {"unigram", "bigram"}

NoErr     == [type |-> "none", task |-> "none"]
Pending   == [kind |-> "pending", map |-> <<>>, err |-> NoErr]
Ok(m)     == [kind |-> "ok", map |-> m, err |-> NoErr]
Err(e, t) == [kind |-> "err", map |-> <<>>, err |-> [type |-> e, task |-> t]]

\* HashMap::new()
EmptyMap == <<>>

\* HashMap::insert: a later value replaces an earlier one under the same key
Insert(m, k, v) == [x \in DOMAIN m \cup {k} |-> IF x = k THEN v ELSE m[x]]

\* HashMap::get with the default the callers use
Get(m, k, default) == IF k \in DOMAIN m THEN m[k] ELSE default

\* Lines::next_line on the bytes from position p on: the line up to the next
\* "\n", without it and without a "\r" before it; at the end of the file, what
\* is left, if anything is.
HasLine(f, p) == p < Len(f)

LineEnd(f, p) ==
    LET nl == {i \in (p + 1)..Len(f) : f[i] = "\n"}
    IN  IF nl = {} THEN Len(f) ELSE Min(nl)

StripLineEnd(s) ==
    LET a == IF s # <<>> /\ s[Len(s)] = "\n" THEN SubSeq(s, 1, Len(s) - 1) ELSE s
    IN  IF a # <<>> /\ a[Len(a)] = "\r" THEN SubSeq(a, 1, Len(a) - 1) ELSE a

NextLine(f, p) == StripLineEnd(SubSeq(f, p + 1, LineEnd(f, p)))

\* RSplitN2 with a fault: line.splitn(2, ' '), the pieces from the left
SplitN2(line) ==
    LET sp == Positions(line, " ")
    IN  IF sp = {} THEN <<line>>
        ELSE <<SubSeq(line, 1, Min(sp) - 1), SubSeq(line, Min(sp) + 1, Len(line))>>

\* line.rsplitn(2, ' '): the pieces from the right, at most two
RSplitN2(line) ==
    LET sp == Positions(line, " ")
    IN  IF sp = {} THEN <<line>>
        ELSE <<SubSeq(line, Max(sp) + 1, Len(line)), SubSeq(line, 1, Max(sp) - 1)>>

\* WordField with a fault: unwrap_or(&line), the whole line when there is no space
WordFieldOrLine(line) ==
    LET sp == Positions(line, " ")
    IN  IF sp = {} THEN line ELSE SubSeq(line, 1, Max(sp) - 1)

\* WordField with a fault: the key is the text before the first space
WordFieldFirst(line) ==
    LET sp == Positions(line, " ")
    IN  IF sp = {} THEN <<>> ELSE SubSeq(line, 1, Min(sp) - 1)

\* split.next().unwrap_or("") for the first and the second piece
ProbField(line) == RSplitN2(line)[1]

WordField(line) == IF Len(RSplitN2(line)) >= 2 THEN RSplitN2(line)[2] ELSE <<>>

----------------------------------------------------------------------------
(* The load task t: one action per step of load_hashmap_from_file.         *)

Callers == {"c1", "c2"}

NoResult == [kind |-> "none", terms |-> <<>>, n |-> 0]

\* no compute_sentence call is under way, and none will be
IdleScore ==
    /\ spc = [c \in Callers |-> "off"]
    /\ sentence = [c \in Callers |-> <<>>]
    /\ words = [c \in Callers |-> <<>>]
    /\ num_words = [c \in Callers |-> 0]
    /\ prev_word = [c \in Callers |-> <<>>]
    /\ log_prob_sum = [c \in Callers |-> <<>>]
    /\ lookups = [c \in Callers |-> <<>>]
    /\ result = [c \in Callers |-> NoResult]

Finish(t, r) ==
    /\ tres' = [tres EXCEPT ![t] = r]
    /\ tpc' = [tpc EXCEPT ![t] = "done"]
    /\ finished' = Append(finished, t)

\* AsyncFile::open(filename).await? succeeds
Open(t) ==
    /\ tpc[t] = "spawned"
    /\ tpc' = [tpc EXCEPT ![t] = "reading"]
    /\ UNCHANGED <<files, pos, hashmap, tres, finished, ctorVars, scoreVars>>

\* AsyncFile::open(filename).await? fails: the file cannot be opened
OpenFail(t) ==
    /\ tpc[t] = "spawned"
    /\ Finish(t, Err("io", t))
    /\ UNCHANGED <<files, pos, hashmap, ctorVars, scoreVars>>

\* lines.next_line().await? fails: a read error in the middle of the stream
ReadFail(t) ==
    /\ tpc[t] = "reading"
    /\ Finish(t, Err("io", t))
    /\ UNCHANGED <<files, pos, hashmap, ctorVars, scoreVars>>

\* one turn of the while loop: the next line is split, parsed and inserted
ReadLine(t) ==
    /\ tpc[t] = "reading"
    /\ HasLine(files[t], pos[t])
    /\ LET line == NextLine(files[t], pos[t])
       IN  /\ IsF64(ProbField(line))
           /\ hashmap' = [hashmap EXCEPT
                  ![t] = Insert(@, WordField(line), ParseF64(ProbField(line)))]
    /\ pos' = [pos EXCEPT ![t] = LineEnd(files[t], pos[t])]
    /\ UNCHANGED <<files, tpc, tres, finished, ctorVars, scoreVars>>

\* one turn of the while loop: parse::<f64>()? fails on the line's last field
ParseFail(t) ==
    /\ tpc[t] = "reading"
    /\ HasLine(files[t], pos[t])
    /\ ~IsF64(ProbField(NextLine(files[t], pos[t])))
    /\ Finish(t, Err("parse", t))
    /\ pos' = [pos EXCEPT ![t] = LineEnd(files[t], pos[t])]
    /\ UNCHANGED <<files, hashmap, ctorVars, scoreVars>>

\* next_line() yields None: Ok(hashmap)
Eof(t) ==
    /\ tpc[t] = "reading"
    /\ ~HasLine(files[t], pos[t])
    /\ Finish(t, Ok(hashmap[t]))
    /\ UNCHANGED <<files, pos, hashmap, ctorVars, scoreVars>>

LoadStep(t) ==
    \/ Open(t)
    \/ OpenFail(t)
    \/ ReadFail(t)
    \/ ReadLine(t)
    \/ ParseFail(t)
    \/ Eof(t)

\* the whole loop, as a function of the file's bytes from position p on
RECURSIVE LoadFrom(_, _, _)
LoadFrom(f, p, m) ==
    IF ~HasLine(f, p) THEN [ok |-> TRUE, map |-> m]
    ELSE LET line == NextLine(f, p)
         IN  IF ~IsF64(ProbField(line)) THEN [ok |-> FALSE, map |-> <<>>]
             ELSE LoadFrom(f, LineEnd(f, p),
                           Insert(m, WordField(line), ParseF64(ProbField(line))))

----------------------------------------------------------------------------
(* The loader alone, on every file of up to MaxFileLen characters.         *)

LoadAlphabet == {"a", " ", "1", "\n"}

InitLoad ==
    /\ \E f \in Str(MaxFileLen, LoadAlphabet) :
           files = [t \in Tasks |-> IF t = "unigram" THEN f ELSE <<>>]
    /\ tpc = [t \in Tasks |-> IF t = "unigram" THEN "spawned" ELSE "unspawned"]
    /\ pos = [t \in Tasks |-> 0]
    /\ hashmap = [t \in Tasks |-> EmptyMap]
    /\ tres = [t \in Tasks |-> Pending]
    /\ finished = <<>>
    /\ cpc = "none"
    /\ model = [unigrams |-> EmptyMap, bigrams |-> EmptyMap]
    /\ ret = [kind |-> "pending", model |-> model, err |-> NoErr]
    /\ data = [unigrams |-> EmptyMap, bigrams |-> EmptyMap]
    /\ IdleScore

NextLoad == \E t \in Tasks : LoadStep(t)

SpecLoad == InitLoad /\ [][NextLoad]_vars

----------------------------------------------------------------------------
(* from_file: the two spawned load tasks, the join, the two assignments.   *)

NewModel == [unigrams |-> EmptyMap, bigrams |-> EmptyMap]

OkModel(m)  == [kind |-> "ok", model |-> m, err |-> NoErr]
ErrModel(e) == [kind |-> "err", model |-> NewModel, err |-> e]
NotReturned == [kind |-> "pending", model |-> NewModel, err |-> NoErr]

\* tokio::spawn of the unigram task
SpawnUnigram ==
    /\ cpc = "spawn_unigram"
    /\ tpc' = [tpc EXCEPT !["unigram"] = "spawned"]
    /\ cpc' = "spawn_bigram"
    /\ UNCHANGED <<files, pos, hashmap, tres, finished, model, ret, scoreVars>>

\* tokio::spawn of the bigram task
SpawnBigram ==
    /\ cpc = "spawn_bigram"
    /\ tpc' = [tpc EXCEPT !["bigram"] = "spawned"]
    /\ cpc' = "join"
    /\ UNCHANGED <<files, pos, hashmap, tres, finished, model, ret, scoreVars>>

\* JoinReady with a fault: the join also ends as soon as one load has failed
JoinReadyShort ==
    \/ \A t \in Tasks : tpc[t] = "done"
    \/ \E t \in Tasks : tres[t].kind = "err"

\* tokio::try_join!(unigram_task, bigram_task)? completes.  A JoinHandle
\* resolves to Err only when its task panicked or was aborted, which no step
\* of load_hashmap_from_file does: a failed load is the handle's Ok(Err(e)),
\* so the join ends only once both handles have resolved.
JoinReady == \A t \in Tasks : tpc[t] = "done"

TryJoin ==
    /\ cpc = "join"
    /\ JoinReady
    /\ cpc' = "assign_unigrams"
    /\ UNCHANGED <<loadVars, model, ret, scoreVars>>

\* IsErr with a fault: the error is dropped (unwrap_or_default) instead of returned
IsErrNever(r) == FALSE

\* the ? operator on a task's result
IsErr(r) == r.kind = "err"

unigrams_result == tres["unigram"]

\* bigrams_result with a fault: the unigram task's result is used twice
unigrams_result_again == tres["unigram"]

bigrams_result == tres["bigram"]

\* model.data.unigrams = unigrams_result?;
AssignUnigrams ==
    /\ cpc = "assign_unigrams"
    /\ IF IsErr(unigrams_result)
       THEN /\ ret' = ErrModel(unigrams_result.err)
            /\ cpc' = "returned"
            /\ UNCHANGED model
       ELSE /\ model' = [model EXCEPT !.unigrams = unigrams_result.map]
            /\ cpc' = "assign_bigrams"
            /\ UNCHANGED ret
    /\ UNCHANGED <<loadVars, scoreVars>>

\* model.data.bigrams = bigrams_result?;
AssignBigrams ==
    /\ cpc = "assign_bigrams"
    /\ IF IsErr(bigrams_result)
       THEN /\ ret' = ErrModel(bigrams_result.err)
            /\ cpc' = "returned"
            /\ UNCHANGED model
       ELSE /\ model' = [model EXCEPT !.bigrams = bigrams_result.map]
            /\ cpc' = "return_ok"
            /\ UNCHANGED ret
    /\ UNCHANGED <<loadVars, scoreVars>>

\* Ok(model)
ReturnOk ==
    /\ cpc = "return_ok"
    /\ ret' = OkModel(model)
    /\ cpc' = "returned"
    /\ UNCHANGED <<loadVars, model, scoreVars>>

\* the lines the constructor's files are made of
CtorLines ==
    { <<"a", " ", "1">>,
      <<"a", " ", "2">>,
      <<"a", " ", "b", " ", "1">>,
      <<"a", " ", "b">> }

RECURSIVE Terminated(_)
Terminated(ls) ==
    IF ls = <<>> THEN <<>> ELSE Head(ls) \o <<"\n">> \o Terminated(Tail(ls))

CtorFiles == {Terminated(ls) : ls \in Str(MaxLines, CtorLines)}

InitCtor ==
    /\ files \in [Tasks -> CtorFiles]
    /\ tpc = [t \in Tasks |-> "unspawned"]
    /\ pos = [t \in Tasks |-> 0]
    /\ hashmap = [t \in Tasks |-> EmptyMap]
    /\ tres = [t \in Tasks |-> Pending]
    /\ finished = <<>>
    /\ cpc = "spawn_unigram"
    /\ model = NewModel
    /\ ret = NotReturned
    /\ data = NewModel
    /\ IdleScore

NextCtor ==
    \/ SpawnUnigram
    \/ SpawnBigram
    \/ \E t \in Tasks : LoadStep(t)
    \/ TryJoin
    \/ AssignUnigrams
    \/ AssignBigrams
    \/ ReturnOk

SpecCtor == InitCtor /\ [][NextCtor]_vars

----------------------------------------------------------------------------
(* tokenize_sentence.                                                      *)

\* the character U+0060, the backtick
BACKTICK == "U+0060"

\* the characters of PUNCTUATION_PATTERN's class
Punctuation ==
    {",", ";", ":", ".", "!", "?", "¿", "¡", "(", ")", "<", ">", "=", "\"", "'",
     BACKTICK}

\* the character U+00A0, white space that is not ASCII
NBSP == "U+00A0"

\* str::to_lowercase, on the letters the model's alphabets hold
LowerChar(c) == CASE c = "A" -> "a" [] c = "B" -> "b" [] OTHER -> c

to_lowercase(s) == [i \in 1..Len(s) |-> LowerChar(s[i])]

\* Replacement with a fault: " $0", no space after the match
ReplacementBefore(c) == <<" ", c>>

\* the replacement " $0 " for a match c
Replacement(c) == <<" ", c, " ">>

\* PUNCTUATION_PATTERN.replace_all(sentence, " $0 ")
RECURSIVE replace_all(_)
replace_all(s) ==
    IF s = <<>> THEN <<>>
    ELSE (IF Head(s) \in Punctuation THEN Replacement(Head(s)) ELSE <<Head(s)>>)
             \o replace_all(Tail(s))

\* the tokens pushed: the fragments that are not empty
tokenize_sentence(s) ==
    SelectSeq(split_ascii_whitespace(replace_all(s)), LAMBDA tok : tok # <<>>)

----------------------------------------------------------------------------
(* compute_sentence, one call per caller at a time.                        *)

\* the number of decimal places of the floor term 1e-6
FloorDigits == 6

\* 0.0, the value of a key that is missing
Zero == [m |-> 0, e |-> 0]

\* a table value in units of 1e-6
Micro(v) == v.m * Pow10(FloorDigits - v.e)

\* LogArg with a fault: the floor term is left out
LogArgNoFloor(bi_dec, uni_dec) == 8 * Micro(bi_dec) + 2 * Micro(uni_dec)

\* bi_dec * 0.8 + uni_dec * 0.2 + 1e-6, the argument of log2, in units of 1e-7
LogArg(bi_dec, uni_dec) == 8 * Micro(bi_dec) + 2 * Micro(uni_dec) + 10

\* format!("{} {}", prev_word, word)
BigramKey(prev, word) == prev \o <<" ">> \o word

\* AfterGet with a fault: a missing key is entered with the default
AfterGetOrInsert(m, k) == IF k \in DOMAIN m THEN m ELSE Insert(m, k, Zero)

\* the table after HashMap::get(k): get takes &self, the table stays as it is
AfterGet(m, k) == m

\* NextPrev with a fault: prev_word is never advanced
NextPrevStuck(prev, word) == prev

\* prev_word = word
NextPrev(prev, word) == word

\* the value 0. returned for no tokens
ZeroScore == [kind |-> "zero", terms |-> <<>>, n |-> 0]

\* (2.0_f64).powf(-log_prob_sum / num_words), log_prob_sum being the sum of
\* the log2 of the terms
PowScore(terms, n) == [kind |-> "pow", terms |-> terms, n |-> n]

\* let words = self.tokenize_sentence(&sentence.to_lowercase()); num_words
Call(c, s) ==
    /\ spc[c] = "idle"
    /\ sentence' = [sentence EXCEPT ![c] = s]
    /\ words' = [words EXCEPT ![c] = tokenize_sentence(to_lowercase(s))]
    /\ num_words' = [num_words EXCEPT ![c] = Len(words'[c])]
    /\ spc' = [spc EXCEPT ![c] = "called"]
    /\ UNCHANGED <<loadVars, ctorVars, data, prev_word, log_prob_sum, lookups, result>>

\* if num_words == 0. { return 0.; }
ReturnZero(c) ==
    /\ spc[c] = "called"
    /\ num_words[c] = 0
    /\ result' = [result EXCEPT ![c] = ZeroScore]
    /\ spc' = [spc EXCEPT ![c] = "returned"]
    /\ UNCHANGED <<loadVars, ctorVars, data, sentence, words, num_words,
                   prev_word, log_prob_sum, lookups>>

\* let mut prev_word = "#".to_string(); let mut log_prob_sum = 0.;
EnterLoop(c) ==
    /\ spc[c] = "called"
    /\ num_words[c] # 0
    /\ prev_word' = [prev_word EXCEPT ![c] = <<"#">>]
    /\ log_prob_sum' = [log_prob_sum EXCEPT ![c] = <<>>]
    /\ spc' = [spc EXCEPT ![c] = "loop"]
    /\ UNCHANGED <<loadVars, ctorVars, data, sentence, words, num_words,
                   lookups, result>>

\* one turn of `for word in words`
Step(c) ==
    /\ spc[c] = "loop"
    /\ Len(log_prob_sum[c]) < Len(words[c])
    /\ LET word   == words[c][Len(log_prob_sum[c]) + 1]
           bigram == BigramKey(prev_word[c], word)
           bi_dec  == Get(data.bigrams, bigram, Zero)
           uni_dec == Get(data.unigrams, word, Zero)
       IN  /\ lookups' = [lookups EXCEPT ![c] = Append(@, <<bigram, word>>)]
           /\ data' = [unigrams |-> AfterGet(data.unigrams, word),
                       bigrams  |-> AfterGet(data.bigrams, bigram)]
           /\ prev_word' = [prev_word EXCEPT ![c] = NextPrev(@, word)]
           /\ log_prob_sum' = [log_prob_sum EXCEPT
                  ![c] = Append(@, LogArg(bi_dec, uni_dec))]
    /\ UNCHANGED <<loadVars, ctorVars, spc, sentence, words, num_words, result>>

\* (2.0_f64).powf(-log_prob_sum / (num_words))
Return(c) ==
    /\ spc[c] = "loop"
    /\ Len(log_prob_sum[c]) = Len(words[c])
    /\ result' = [result EXCEPT ![c] = PowScore(log_prob_sum[c], num_words[c])]
    /\ spc' = [spc EXCEPT ![c] = "returned"]
    /\ UNCHANGED <<loadVars, ctorVars, data, sentence, words, num_words,
                   prev_word, log_prob_sum, lookups>>

\* the caller takes the value; the locals of the call are gone
Reset(c) ==
    /\ spc[c] = "returned"
    /\ spc' = [spc EXCEPT ![c] = "idle"]
    /\ sentence' = [sentence EXCEPT ![c] = <<>>]
    /\ words' = [words EXCEPT ![c] = <<>>]
    /\ num_words' = [num_words EXCEPT ![c] = 0]
    /\ prev_word' = [prev_word EXCEPT ![c] = <<>>]
    /\ log_prob_sum' = [log_prob_sum EXCEPT ![c] = <<>>]
    /\ lookups' = [lookups EXCEPT ![c] = <<>>]
    /\ result' = [result EXCEPT ![c] = NoResult]
    /\ UNCHANGED <<loadVars, ctorVars, data>>

\* a call with any sentence of S
CallAny(c, S) == spc[c] = "idle" /\ \E s \in S : Call(c, s)

ScoreStep(c, S) ==
    \/ CallAny(c, S)
    \/ ReturnZero(c)
    \/ EnterLoop(c)
    \/ Step(c)
    \/ Return(c)
    \/ Reset(c)

\* the state once from_file has returned, to the `active` callers, the model
\* of the files fs (which load without a failure)
AfterFromFile(fs, active) ==
    /\ files = fs
    /\ tpc = [t \in Tasks |-> "done"]
    /\ pos = [t \in Tasks |-> Len(fs[t])]
    /\ hashmap = [t \in Tasks |-> LoadFrom(fs[t], 0, EmptyMap).map]
    /\ tres = [t \in Tasks |-> Ok(LoadFrom(fs[t], 0, EmptyMap).map)]
    /\ finished \in {<<"unigram", "bigram">>, <<"bigram", "unigram">>}
    /\ cpc = "returned"
    /\ model = [unigrams |-> LoadFrom(fs["unigram"], 0, EmptyMap).map,
                bigrams  |-> LoadFrom(fs["bigram"], 0, EmptyMap).map]
    /\ ret = OkModel(model)
    /\ data = model
    /\ spc = [c \in Callers |-> IF c \in active THEN "idle" ELSE "off"]
    /\ sentence = [c \in Callers |-> <<>>]
    /\ words = [c \in Callers |-> <<>>]
    /\ num_words = [c \in Callers |-> 0]
    /\ prev_word = [c \in Callers |-> <<>>]
    /\ log_prob_sum = [c \in Callers |-> <<>>]
    /\ lookups = [c \in Callers |-> <<>>]
    /\ result = [c \in Callers |-> NoResult]

\* the files of the scoring specifications: for each key, no line or one
\* line, with the value -1 or 0.5
ScoreLiterals == {<<"-", "1">>, <<"0", ".", "5">>}

OptionalLine(key) == {<<>>} \cup {<<key \o <<" ">> \o v>> : v \in ScoreLiterals}

FilesOver(key1, key2) ==
    {Terminated(l1 \o l2) : l1 \in OptionalLine(key1), l2 \in OptionalLine(key2)}

ScoreFiles ==
    {[t \in Tasks |-> IF t = "unigram" THEN fu ELSE fb] :
        fu \in FilesOver(<<"a">>, <<",">>),
        fb \in FilesOver(<<"#", " ", "a">>, <<"a", " ", "a">>)}

EmptyFiles == [t \in Tasks |-> <<>>]

\* the tokenizer, through compute_sentence on a model with empty tables
TokAlphabet == {"a", "A", ",", "¿", "-", " ", "\t", NBSP}

InitTok == AfterFromFile(EmptyFiles, {"c1"})

NextTok == \E c \in Callers : ScoreStep(c, Str(MaxSentenceLen, TokAlphabet))

SpecTok == InitTok /\ [][NextTok]_vars

\* one caller scoring sentences against a model
ScoreAlphabet == {"a", "A", ",", " "}

InitScore == \E fs \in ScoreFiles : AfterFromFile(fs, {"c1"})

NextScore == \E c \in Callers : ScoreStep(c, Str(MaxScoreLen, ScoreAlphabet))

SpecScore == InitScore /\ [][NextScore]_vars

\* two callers scoring sentences against the same model at once
SharedAlphabet == {"a", ",", " "}

SharedFiles == {fs \in ScoreFiles : <<",">> \notin DOMAIN LoadFrom(fs["unigram"], 0, EmptyMap).map}

InitShared == \E fs \in SharedFiles : AfterFromFile(fs, Callers)

NextShared == \E c \in Callers : ScoreStep(c, Str(MaxSharedLen, SharedAlphabet))

SpecShared == InitShared /\ [][NextShared]_vars

----------------------------------------------------------------------------
(* What the claims speak of.                                               *)

\* the lines next_line yields for file f, from position p on
RECURSIVE LinesFrom(_, _)
LinesFrom(f, p) ==
    IF ~HasLine(f, p) THEN <<>>
    ELSE <<NextLine(f, p)>> \o LinesFrom(f, LineEnd(f, p))

Lines(f) == LinesFrom(f, 0)

\* the whole load of file f, when nothing fails to be read
Load(f) == LoadFrom(f, 0, EmptyMap)

NoSpace(s) == Positions(s, " ") = {}

\* line = key ++ " " ++ value, where value is a float literal without a space
IsKeyValue(line, j) ==
    /\ j \in 1..Len(line)
    /\ line[j] = " "
    /\ NoSpace(SubSeq(line, j + 1, Len(line)))
    /\ IsF64(SubSeq(line, j + 1, Len(line)))

KeyAt(line, j) == SubSeq(line, 1, j - 1)

ValueAt(line, j) == ParseF64(SubSeq(line, j + 1, Len(line)))

\* the number of whitespace-separated components of a key
Components(k) == Len(split_ascii_whitespace(k))

\* the line the task consumed last (the one that ends at pos[t])
LastLine(t) ==
    LET f == files[t]
        e == IF f[pos[t]] = "\n" THEN pos[t] - 1 ELSE pos[t]
        nl == {i \in 1..e : f[i] = "\n"}
        b == IF nl = {} THEN 0 ELSE Max(nl)
    IN  StripLineEnd(SubSeq(f, b + 1, pos[t]))

IoFailed(t) == tres[t].err.type = "io"

----------------------------------------------------------------------------
(* C1 - from_file is all-or-nothing.                                       *)

TablesOf(fs) ==
    [unigrams |-> Load(fs["unigram"]).map, bigrams |-> Load(fs["bigram"]).map]

\* C1: nothing is returned before from_file ends; a model is returned only
\* when both loads succeeded, and then it holds exactly the two tables of the
\* two whole files; when a load failed (the file could not be opened or read,
\* or a line's last field is no float) an error is returned and no model.
C1_AllOrNothing ==
    /\ cpc # "returned" => ret = NotReturned
    /\ ret.kind = "ok" =>
          /\ \A t \in Tasks : tres[t].kind = "ok" /\ Load(files[t]).ok
          /\ ret.model = TablesOf(files)
    /\ (cpc = "returned" /\ \E t \in Tasks : tres[t].kind = "err" \/ ~Load(files[t]).ok)
          => ret.kind = "err" /\ ret.model = NewModel

\* the unigram table was loaded and assigned, the bigram load failed on a
\* line, and from_file returned the error
C1_Witness ==
    /\ cpc = "returned"
    /\ ret.kind = "err"
    /\ tres["unigram"].kind = "ok"
    /\ model.unigrams # EmptyMap
    /\ tres["bigram"].err.type = "parse"
    /\ pos["bigram"] > 4

----------------------------------------------------------------------------
(* C2 - the result does not depend on the interleaving of the two loads.   *)

\* C2: for two files that can be read and whose lines all end in a float,
\* from_file returns a model holding the table of each file, whatever the
\* order of the two tasks' steps; a task's hashmap is at every moment the
\* table of the lines it has read of its own file; the fields of the model
\* are assigned only after both tasks have finished.
C2_InterleavingIndependent ==
    /\ (/\ cpc = "returned"
        /\ \A t \in Tasks : Load(files[t]).ok /\ ~IoFailed(t))
          => ret = OkModel(TablesOf(files))
    /\ \A t \in Tasks :
          Load(SubSeq(files[t], 1, pos[t])).ok
              => hashmap[t] = Load(SubSeq(files[t], 1, pos[t])).map
    /\ model # NewModel => \A t \in Tasks : tpc[t] = "done"

\* a model with two non-empty tables was returned though the bigram task
\* finished first
C2_Witness ==
    /\ cpc = "returned"
    /\ ret.kind = "ok"
    /\ finished = <<"bigram", "unigram">>
    /\ ret.model.unigrams # EmptyMap
    /\ ret.model.bigrams # EmptyMap
    /\ ret.model.unigrams # ret.model.bigrams

----------------------------------------------------------------------------
(* C3 - which error from_file returns, and when.                           *)

Failed(t) == tres[t].kind = "err"

FirstFailed == finished[Min({i \in 1..Len(finished) : Failed(finished[i])})]

\* C3 as claimed: construction fails with the error of the task that failed
\* first, without waiting for the other task.
C3_FirstFailureWins ==
    (cpc = "returned" /\ ret.kind = "err") => ret.err.task = FirstFailed

\* C3 as amended: the join waits for both tasks; then the unigram load's
\* error is returned if it failed, else the bigram load's error if it
\* failed; the result of the other task is discarded.
C3_JoinWaitsUnigramErrorFirst ==
    /\ cpc \in {"assign_unigrams", "assign_bigrams", "return_ok", "returned"}
          => \A t \in Tasks : tpc[t] = "done"
    /\ cpc = "returned" =>
          /\ ret.kind = "err" <=> \E t \in Tasks : Failed(t)
          /\ Failed("unigram") => ret = ErrModel(tres["unigram"].err)
          /\ (~Failed("unigram") /\ Failed("bigram"))
                => ret = ErrModel(tres["bigram"].err)

\* both loads failed, the bigram load first, and the unigram load's error
\* was returned
C3_Witness ==
    /\ cpc = "returned"
    /\ finished = <<"bigram", "unigram">>
    /\ Failed("bigram") /\ Failed("unigram")
    /\ ret.err.task = "unigram"

----------------------------------------------------------------------------
(* C4 - a line is split at its last space.                                 *)

\* a line after line i of ls that is stored under the same key
SameKeyLater(ls, i, key) ==
    \E i2 \in (i + 1)..Len(ls) :
        \/ \E j2 \in 1..Len(ls[i2]) :
               /\ ls[i2][j2] = " "
               /\ NoSpace(SubSeq(ls[i2], j2 + 1, Len(ls[i2])))
               /\ KeyAt(ls[i2], j2) = key
        \/ NoSpace(ls[i2]) /\ key = <<>>

\* C4 as claimed: after a load, the table maps the key of every line
\* "<key> <value>" to that line's value.
C4_EveryLineMapsKeyToValue ==
    \A t \in Tasks : tres[t].kind = "ok" =>
        LET ls == Lines(files[t]) IN
        \A i \in 1..Len(ls) : \A j \in 1..Len(ls[i]) :
            (IsKeyValue(ls[i], j) /\ KeyAt(ls[i], j) # <<>>) =>
                /\ KeyAt(ls[i], j) \in DOMAIN tres[t].map
                /\ tres[t].map[KeyAt(ls[i], j)] = ValueAt(ls[i], j)

\* C4 as amended: after a load, the table has the whole key (the text before
\* the last space, spaces included) of every line "<key> <value>", mapped to
\* that line's value unless a later line has the same key: the last line
\* with a key wins.  A file of one such line gives exactly that one entry.
C4_LastLineOfKeyWins ==
    \A t \in Tasks : tres[t].kind = "ok" =>
        LET ls == Lines(files[t]) IN
        \A i \in 1..Len(ls) : \A j \in 1..Len(ls[i]) :
            IsKeyValue(ls[i], j) =>
                /\ KeyAt(ls[i], j) \in DOMAIN tres[t].map
                /\ ~SameKeyLater(ls, i, KeyAt(ls[i], j))
                      => tres[t].map[KeyAt(ls[i], j)] = ValueAt(ls[i], j)
                /\ Len(ls) = 1
                      => tres[t].map = [k \in {KeyAt(ls[i], j)} |-> ValueAt(ls[i], j)]

\* a file whose one line has a key with a space in it was loaded
C4_Witness ==
    /\ tres["unigram"].kind = "ok"
    /\ LET ls == Lines(files["unigram"]) IN
       /\ Len(ls) = 1
       /\ \E j \in 1..Len(ls[1]) :
             /\ IsKeyValue(ls[1], j)
             /\ \E a, b \in 1..(j - 1) : a < b /\ ls[1][a] = " " /\ ls[1][b] # " "
             /\ tres["unigram"].map = [k \in {KeyAt(ls[1], j)} |-> ValueAt(ls[1], j)]

----------------------------------------------------------------------------
(* C5 - a line without a space.                                            *)

Consumed(t) == tpc[t] \in {"reading", "done"} /\ pos[t] > 0

\* C5 as claimed: a line without a space never fails the load, and an entry
\* is recorded under the empty key.
C5_NoSpaceLineAccepted ==
    \A t \in Tasks : (Consumed(t) /\ NoSpace(LastLine(t))) =>
        /\ tres[t].err.type # "parse"
        /\ <<>> \in DOMAIN hashmap[t]

\* C5 as amended: a line without a space that is a float literal is
\* accepted, and its value recorded under the empty key; a line without a
\* space that is no float literal (the empty line among them) fails the load
\* with a parse error.
C5_NoSpaceLineIsItsOwnValue ==
    \A t \in Tasks : (Consumed(t) /\ NoSpace(LastLine(t))) =>
        IF IsF64(LastLine(t))
        THEN /\ tres[t].err.type # "parse"
             /\ <<>> \in DOMAIN hashmap[t]
             /\ hashmap[t][<<>>] = ParseF64(LastLine(t))
        ELSE tres[t] = Err("parse", t)

\* a load ended well whose last line, without a space, went under the empty
\* key, after a line under another key
C5_Witness ==
    /\ tres["unigram"].kind = "ok"
    /\ pos["unigram"] > 0
    /\ NoSpace(LastLine("unigram"))
    /\ DOMAIN tres["unigram"].map = {<<>>, <<"a">>}

----------------------------------------------------------------------------
(* C7 - the shape of the keys.                                             *)

KeysShaped(m) ==
    /\ \A k \in DOMAIN m.bigrams : Components(k) = 2
    /\ \A k \in DOMAIN m.unigrams : Components(k) = 1

\* every line of f is n words and a last field, single spaces between them
LinesShaped(f, n) ==
    \A i \in 1..Len(Lines(f)) :
        /\ Cardinality(Positions(Lines(f)[i], " ")) = n
        /\ Len(split_ascii_whitespace(Lines(f)[i])) = n + 1

\* C7 as claimed: in every model from_file returns, a bigram key has two
\* components and a unigram key has one.
C7_KeysAlwaysShaped == ret.kind = "ok" => KeysShaped(ret.model)

\* C7 as amended: the keys have that shape when the lines of the files do
\* (every line of the bigram file "w1 w2 p", every line of the unigram file
\* "w p"); the loader does not check the shape.
C7_KeysShapedAsLines ==
    (/\ ret.kind = "ok"
     /\ LinesShaped(files["unigram"], 1)
     /\ LinesShaped(files["bigram"], 2))
        => KeysShaped(ret.model)

\* a model was returned from two files of the documented shape
C7_Witness ==
    /\ ret.kind = "ok"
    /\ LinesShaped(files["unigram"], 1)
    /\ LinesShaped(files["bigram"], 2)
    /\ ret.model.unigrams # EmptyMap
    /\ ret.model.bigrams # EmptyMap

----------------------------------------------------------------------------
(* C6 - the argument of log2.                                              *)

\* the score is a number (not NaN): no term is negative
IsNumber(r) == \A i \in 1..Len(r.terms) : r.terms[i] >= 0

AllTermsPositive ==
    \A c \in Callers :
        /\ \A i \in 1..Len(log_prob_sum[c]) : log_prob_sum[c][i] > 0
        /\ IsNumber(result[c])

NoNegativeValue(d) ==
    /\ \A k \in DOMAIN d.unigrams : d.unigrams[k].m >= 0
    /\ \A k \in DOMAIN d.bigrams : d.bigrams[k].m >= 0

\* C6 as claimed: for every loaded model and sentence, every argument of log2
\* is strictly positive and the score is defined.
C6_LogArgAlwaysPositive == AllTermsPositive

\* C6 as amended: when no value of the two tables is negative (or NaN), every
\* argument of log2 is strictly positive and the score is a defined,
\* non-negative number; the floor covers missing keys, not negative values.
C6_LogArgPositiveForNonNegativeTables ==
    NoNegativeValue(data) => AllTermsPositive

\* a score was returned from a model without negative values, with a term
\* where both lookups missed and a term where one hit
C6_Witness ==
    /\ NoNegativeValue(data)
    /\ spc["c1"] = "returned"
    /\ result["c1"].kind = "pow"
    /\ \E i, j \in 1..Len(result["c1"].terms) :
          result["c1"].terms[i] = 10 /\ result["c1"].terms[j] > 10

----------------------------------------------------------------------------
(* C8 - the tokens.                                                        *)

IsTokenStart(inp, k) ==
    /\ inp[k] \notin AsciiWhitespace
    /\ \/ k = 1
       \/ inp[k - 1] \in AsciiWhitespace
       \/ inp[k - 1] \in Punctuation
       \/ inp[k] \in Punctuation

TokensOf(inp, toks) ==
    /\ \A i \in 1..Len(toks) : toks[i] # <<>>
    /\ \A i \in 1..Len(toks) : \A k \in 1..Len(toks[i]) :
          /\ toks[i][k] \notin AsciiWhitespace
          /\ toks[i][k] \in Punctuation => Len(toks[i]) = 1
    /\ Flatten(toks) = SelectSeq(inp, LAMBDA ch : ch \notin AsciiWhitespace)
    /\ Len(toks) = Cardinality({k \in 1..Len(inp) : IsTokenStart(inp, k)})

\* C8: the tokens of a sentence are not empty, hold no ASCII white space
\* (space, tab, line feed, form feed, carriage return), come in the order of
\* the input, each punctuation character is a token of its own, and every
\* other character stays with its neighbours: the tokens joined are the
\* lowercased input without its ASCII white space, and a token starts only
\* at the start, after white space, or at or after a punctuation character.
C8_Tokens ==
    \A c \in Callers :
        spc[c] \in {"called", "loop", "returned"}
            => TokensOf(to_lowercase(sentence[c]), words[c])

\* a sentence with an upper-case letter, white space, and a punctuation
\* character right after a word of two characters
C8_Witness ==
    /\ spc["c1"] = "called"
    /\ \E i \in 1..Len(sentence["c1"]) : sentence["c1"][i] = "A"
    /\ \E i \in 1..Len(sentence["c1"]) : sentence["c1"][i] \in AsciiWhitespace
    /\ \E i \in 2..Len(sentence["c1"]) :
          /\ sentence["c1"][i] \in Punctuation
          /\ sentence["c1"][i - 1] \notin AsciiWhitespace \cup Punctuation
    /\ Len(words["c1"]) = 2
    /\ Len(words["c1"][1]) = 2

----------------------------------------------------------------------------
(* C9 - scoring reads the model and nothing else.                          *)

\* the terms of the tokens t after the word prev
RECURSIVE TermsOf(_, _, _)
TermsOf(d, prev, t) ==
    IF t = <<>> THEN <<>>
    ELSE <<LogArg(Get(d.bigrams, BigramKey(prev, Head(t)), Zero),
                  Get(d.unigrams, Head(t), Zero))>>
             \o TermsOf(d, Head(t), Tail(t))

\* compute_sentence as a function of the model and the sentence
ScoreOf(d, s) ==
    LET t == tokenize_sentence(to_lowercase(s))
    IN  IF Len(t) = 0 THEN ZeroScore ELSE PowScore(TermsOf(d, <<"#">>, t), Len(t))

OwnSentenceOnly ==
    \A c \in Callers :
        /\ spc[c] = "returned" => result[c] = ScoreOf(data, sentence[c])
        /\ spc[c] = "loop" =>
              log_prob_sum[c] =
                  SubSeq(ScoreOf(data, sentence[c]).terms, 1, Len(log_prob_sum[c]))

\* C9: no step of a compute_sentence call changes the tables, and what a
\* call has computed and returns is a function of the model and of its own
\* sentence, whatever the other caller does meanwhile or did before.
C9_ScoringReadOnly == [][data' = data]_vars /\ []OwnSentenceOnly

\* one call has returned a score while the other, on another sentence, is
\* between its two tokens, against a model with entries in both tables
C9_Witness ==
    /\ spc["c1"] = "returned"
    /\ result["c1"].kind = "pow"
    /\ spc["c2"] = "loop"
    /\ Len(words["c2"]) = 2
    /\ Len(log_prob_sum["c2"]) = 1
    /\ sentence["c1"] # sentence["c2"]
    /\ data.unigrams # EmptyMap
    /\ data.bigrams # EmptyMap

----------------------------------------------------------------------------
(* C10 - the bigram chain.                                                 *)

ValueOrZero(m, k) == IF k \in DOMAIN m THEN m[k] ELSE [m |-> 0, e |-> 0]

\* C10: with t1..tN the tokens of the sentence, the i-th turn of the loop
\* looks up the bigram key "# t1" when i = 1 and "t(i-1) ti" otherwise, and
\* the unigram key ti; a key that is missing counts 0.0; the turns come in
\* the order of the tokens, and N terms are in the sum when the call returns.
C10_BigramChain ==
    \A c \in Callers : spc[c] \in {"loop", "returned"} =>
        LET t == tokenize_sentence(to_lowercase(sentence[c]))
            n == Len(lookups[c])
        IN  /\ n <= Len(t)
            /\ Len(log_prob_sum[c]) = n
            /\ \A i \in 1..n :
                  LET before == IF i = 1 THEN <<"#">> ELSE t[i - 1]
                  IN  /\ lookups[c][i] = <<before \o <<" ">> \o t[i], t[i]>>
                      /\ log_prob_sum[c][i] =
                            8 * Micro(ValueOrZero(data.bigrams, lookups[c][i][1]))
                              + 2 * Micro(ValueOrZero(data.unigrams, lookups[c][i][2]))
                              + 10
            /\ spc[c] = "returned" =>
                  /\ n = Len(t)
                  /\ result[c] = IF n = 0 THEN ZeroScore
                                 ELSE PowScore(log_prob_sum[c], n)

\* a call of two tokens has returned; its first bigram key was missing from
\* the table and its second was in it
C10_Witness ==
    /\ spc["c1"] = "returned"
    /\ Len(lookups["c1"]) = 2
    /\ lookups["c1"][1][1] \notin DOMAIN data.bigrams
    /\ lookups["c1"][2][1] \in DOMAIN data.bigrams
    /\ lookups["c1"][2][2] \in DOMAIN data.unigrams

====
